---- MODULE Spec2Model ----
(***************************************************************************)
(* RollingTokenManager (src/src/lib.rs): time-slot quantization, HMAC      *)
(* token derivation, and the refresh/validation of the window of active   *)
(* tokens.  A public call is one step.  In Spec, SpecPair, SpecUnchecked,  *)
(* SpecDefault and SpecRollback the clock is stable during a call; in     *)
(* SpecRace it may advance between the clock reads of one is_valid call.  *)
(***************************************************************************)
EXTENDS Integers, Sequences, FiniteSets

\* ------------------------------------------------------------------ bounds
\* The wall clock runs from 0 to MaxClock seconds since the epoch.
MaxClock == 4
\* Intervals 1..MaxInterval seconds per slot.
MaxInterval == 2
\* Tolerances 0..MaxTolerance (and the default, None).
MaxTolerance == 1
\* Offsets range one past the widest tolerance on each side.
MaxOffset == MaxTolerance + 1
Offsets == (0 - MaxOffset)..MaxOffset

\* tolerance.unwrap_or(1)
DefaultTolerance == 1

Secrets == {"test_secret", "other_secret"}

VARIABLES
    clock,          \* SystemTime::now() - UNIX_EPOCH, in whole seconds
    secret,         \* secret[m]: the key of manager m
    interval,       \* interval[m]
    tolerance,      \* tolerance[m]
    active_tokens,  \* active_tokens[m]: Vec<Token>
    held,           \* the Token a caller kept from a generation call
    call,           \* the call that has just returned, and what it returned
    window          \* window[m]: active_tokens[m] as the last is_valid left it

vars == <<clock, secret, interval, tolerance, active_tokens, held, call, window>>

Managers == DOMAIN secret

\* ------------------------------------------------------------ pure helpers
Abs(x) == IF x < 0 THEN 0 - x ELSE x

\* i64 division: the quotient truncated toward zero.
TruncDiv(a, b) ==
    IF (a < 0) = (b < 0) THEN Abs(a) \div Abs(b) ELSE 0 - (Abs(a) \div Abs(b))

Digit(d) ==
    CASE d = 0 -> "0" [] d = 1 -> "1" [] d = 2 -> "2" [] d = 3 -> "3"
      [] d = 4 -> "4" [] d = 5 -> "5" [] d = 6 -> "6" [] d = 7 -> "7"
      [] d = 8 -> "8" [] d = 9 -> "9"

RECURSIVE Digits(_)
Digits(n) == IF n < 10 THEN Digit(n) ELSE Digits(n \div 10) \o Digit(n % 10)

\* i64::to_string: decimal, no leading zeros, "-" before a negative number.
ToString(n) == IF n < 0 THEN "-" \o Digits(0 - n) ELSE Digits(n)

\* HMAC-SHA256 as a collision-free keyed function: the digest is named by the
\* key and the message it was computed from.
HmacSha256(key, msg) == key \o "|" \o msg

\* hex::encode: lowercase hex of the digest.
HexEncode(digest) == "hex:" \o digest

\* The same digest in upper-case hex: never produced by the manager, only
\* presented to it.
HexUpper(digest) == "HEX:" \o digest

Some(x) == [some |-> TRUE, val |-> x]
None == [some |-> FALSE, val |-> 0]

\* Mutant: an absent tolerance becomes 0.
NewDefaultZero(s, i, t) ==
    [secret |-> s,
     interval |-> i,
     tolerance |-> IF t.some THEN t.val ELSE 0,
     active_tokens |-> <<>>]

\* RollingTokenManager::new
New(s, i, t) ==
    [secret |-> s,
     interval |-> i,
     tolerance |-> IF t.some THEN t.val ELSE DefaultTolerance,
     active_tokens |-> <<>>]

\* Mutant: the quotient rounded up.
CurrentTimestampCeil(m, u) == TruncDiv(u + interval[m] - 1, interval[m])

\* current_timestamp with the clock reading u; interval 0 panics (see Panics)
CurrentTimestamp(m, u) == TruncDiv(u, interval[m])

\* attempt to divide by zero
Panics(m) == interval[m] = 0

\* Mutant: the MAC is computed over the offset, not over the slot.
GenerateTokenOverOffset(m, u, offset) ==
    LET timestamp == CurrentTimestamp(m, u) + offset
        encoded_timestamp == ToString(offset)
        mac == HmacSha256(secret[m], encoded_timestamp)
        token == HexEncode(mac)
    IN  [token |-> token, timestamp |-> timestamp]

\* generate_token_with_offset with the clock reading u
GenerateTokenWithOffset(m, u, offset) ==
    LET timestamp == CurrentTimestamp(m, u) + offset
        encoded_timestamp == ToString(timestamp)
        mac == HmacSha256(secret[m], encoded_timestamp)
        token == HexEncode(mac)
    IN  [token |-> token, timestamp |-> timestamp]

\* generate_token
GenerateToken(m, u) == GenerateTokenWithOffset(m, u, 0)

\* Mutant: the operands of the subtraction swapped.
GetOffsetSwapped(tok, m, u) == CurrentTimestamp(m, u) - tok.timestamp

\* Token::get_offset
GetOffset(tok, m, u) == tok.timestamp - CurrentTimestamp(m, u)

\* Mutant: the exclusive range (lo..hi), which misses the last slot.
RangeSeqExclusive(lo, hi) == [i \in 1..(hi - lo) |-> lo + i - 1]

\* (lo..=hi).collect()
RangeSeq(lo, hi) == [i \in 1..(hi - lo + 1) |-> lo + i - 1]

\* Mutant: < in place of <=, which drops the tokens at the edges of the window.
RetainedStrict(m, u) ==
    LET current_time == CurrentTimestamp(m, u)
    IN  SelectSeq(active_tokens[m],
                  LAMBDA token : Abs(token.timestamp - current_time) < tolerance[m])

\* Mutant: the retain predicate negated, which drops the tokens of the window.
RetainedInverted(m, u) ==
    LET current_time == CurrentTimestamp(m, u)
    IN  SelectSeq(active_tokens[m],
                  LAMBDA token : ~(Abs(token.timestamp - current_time) <= tolerance[m]))

\* Mutant: only the past side is pruned, which keeps every future token.
RetainedPastOnly(m, u) ==
    LET current_time == CurrentTimestamp(m, u)
    IN  SelectSeq(active_tokens[m],
                  LAMBDA token : current_time - token.timestamp <= tolerance[m])

\* Mutant: the retain predicate without abs(), which keeps every past token.
RetainedNoAbs(m, u) ==
    LET current_time == CurrentTimestamp(m, u)
    IN  SelectSeq(active_tokens[m],
                  LAMBDA token : token.timestamp - current_time <= tolerance[m])

\* active_tokens.retain(|token| (token.timestamp - current_time).abs() <= tolerance)
Retained(m, u) ==
    LET current_time == CurrentTimestamp(m, u)
    IN  SelectSeq(active_tokens[m],
                  LAMBDA token : Abs(token.timestamp - current_time) <= tolerance[m])

\* Mutant: the timestamps already present are not removed.
NeededTimestampsAll(m, u) ==
    LET current_time == CurrentTimestamp(m, u)
    IN  RangeSeq(current_time - tolerance[m], current_time + tolerance[m])

\* needed_timestamps after the timestamps already present were removed
NeededTimestamps(m, u) ==
    LET current_time == CurrentTimestamp(m, u)
        all == RangeSeq(current_time - tolerance[m], current_time + tolerance[m])
        kept == Retained(m, u)
    IN  SelectSeq(all, LAMBDA t : \A k \in 1..Len(kept) : kept[k].timestamp # t)

\* Mutant: no early return and every slot of the window derived again.
GeneratedAlways(m, u) == NeededTimestampsAll(m, u)

\* The timestamps refresh_tokens derives a token for: none on the early return.
Generated(m, u) ==
    IF Len(Retained(m, u)) = 1 + 2 * tolerance[m] THEN <<>> ELSE NeededTimestamps(m, u)

\* refresh_tokens: the new value of active_tokens
RefreshTokens(m, u) ==
    LET current_time == CurrentTimestamp(m, u)
        gen == Generated(m, u)
    IN  Retained(m, u)
          \o [i \in 1..Len(gen) |-> GenerateTokenWithOffset(m, u, gen[i] - current_time)]

\* Mutant: starts_with in place of ==, which the empty string satisfies.
AnyMatchStartsWith(tokens, token) ==
    \E k \in 1..Len(tokens) : token = "" \/ tokens[k].token = token

\* active_tokens.iter().any(|t| t.token == token)
AnyMatch(tokens, token) == \E k \in 1..Len(tokens) : tokens[k].token = token

\* ------------------------------------------------------------------- state
NoToken == [token |-> "", timestamp |-> 0]

\* No token kept yet.
NoHeld == [has |-> FALSE, m |-> 0, tok |-> NoToken, offset |-> 0, slot |-> 0]

\* No is_valid call has returned yet.
NoWindow == [valid |-> FALSE, slot |-> 0, tokens |-> <<>>]

\* op: the function called on manager m; slot: the current slot of the call;
\* offset, cand: its argument; tok, ok, off: what it returned; macs: the MAC
\* computations it made; prev: window[m] before it; panicked: it did not return.
NoCall ==
    [op |-> "none", m |-> 0, slot |-> 0, offset |-> 0, cand |-> "",
     tok |-> NoToken, ok |-> FALSE, off |-> 0, macs |-> 0, prev |-> NoWindow,
     panicked |-> FALSE]

Panicked(op, m) == [NoCall EXCEPT !.op = op, !.m = m, !.panicked = TRUE]

\* The managers new(s, i, t) returns for the argument tuples in args.
Constructed(args) ==
    /\ secret = [m \in DOMAIN args |-> New(args[m][1], args[m][2], args[m][3]).secret]
    /\ interval = [m \in DOMAIN args |-> New(args[m][1], args[m][2], args[m][3]).interval]
    /\ tolerance = [m \in DOMAIN args |-> New(args[m][1], args[m][2], args[m][3]).tolerance]
    /\ active_tokens =
         [m \in DOMAIN args |-> New(args[m][1], args[m][2], args[m][3]).active_tokens]
    /\ window = [m \in DOMAIN args |-> NoWindow]
    /\ clock = 0
    /\ held = NoHeld
    /\ call = NoCall

\* Arguments that meet new's precondition: interval > 0, tolerance >= 0 or absent.
ValidIntervals == 1..MaxInterval
ValidTolerances == {None} \cup {Some(t) : t \in 0..MaxTolerance}

\* Any i64 interval and tolerance, as new accepts them.
AnyIntervals == (0 - 1)..MaxInterval
AnyTolerances == {None} \cup {Some(t) : t \in (0 - 1)..MaxTolerance}

\* One manager, constructed within the precondition.
Init ==
    \E i \in ValidIntervals, t \in ValidTolerances :
        Constructed(<<(<<"test_secret", i, t>>)>>)

\* ----------------------------------------------------------------- actions
\* The wall clock advances by one second.
Tick ==
    /\ clock < MaxClock
    /\ clock' = clock + 1
    /\ call' = NoCall
    /\ UNCHANGED <<secret, interval, tolerance, active_tokens, held, window>>

\* The caller keeps the returned token, or lets it go.
Keep(keep, m, tok, offset) ==
    IF keep
    THEN [has |-> TRUE, m |-> m, tok |-> tok, offset |-> offset,
          slot |-> CurrentTimestamp(m, clock)]
    ELSE held

\* Mutant: generation stores the token it derived in active_tokens.
CallGenerateCaching(m, offset, keep) ==
    /\ ~Panics(m)
    /\ LET tok == GenerateTokenWithOffset(m, clock, offset)
       IN  /\ call' = [NoCall EXCEPT !.op = "generate_token_with_offset", !.m = m,
                          !.slot = CurrentTimestamp(m, clock),
                          !.offset = offset, !.tok = tok, !.macs = 1]
           /\ held' = Keep(keep, m, tok, offset)
           /\ active_tokens' = [active_tokens EXCEPT ![m] = Append(@, tok)]
    /\ UNCHANGED <<clock, secret, interval, tolerance, window>>

\* manager m: generate_token_with_offset(offset)
CallGenerateTokenWithOffset(m, offset, keep) ==
    /\ IF Panics(m)
       THEN /\ call' = Panicked("generate_token_with_offset", m)
            /\ held' = held
       ELSE LET tok == GenerateTokenWithOffset(m, clock, offset)
            IN  /\ call' = [NoCall EXCEPT !.op = "generate_token_with_offset", !.m = m,
                               !.slot = CurrentTimestamp(m, clock),
                               !.offset = offset, !.tok = tok, !.macs = 1]
                /\ held' = Keep(keep, m, tok, offset)
    /\ UNCHANGED <<clock, secret, interval, tolerance, active_tokens, window>>

\* manager m: generate_token()
CallGenerateToken(m, keep) ==
    /\ IF Panics(m)
       THEN /\ call' = Panicked("generate_token", m)
            /\ held' = held
       ELSE LET tok == GenerateToken(m, clock)
            IN  /\ call' = [NoCall EXCEPT !.op = "generate_token", !.m = m,
                               !.slot = CurrentTimestamp(m, clock),
                               !.tok = tok, !.macs = 1]
                /\ held' = Keep(keep, m, tok, 0)
    /\ UNCHANGED <<clock, secret, interval, tolerance, active_tokens, window>>

\* manager m: is_valid(token)
IsValid(m, token) ==
    /\ IF Panics(m)
       THEN /\ call' = Panicked("is_valid", m)
            /\ UNCHANGED <<active_tokens, window>>
       ELSE LET refreshed == RefreshTokens(m, clock)
                now == CurrentTimestamp(m, clock)
            IN  /\ active_tokens' = [active_tokens EXCEPT ![m] = refreshed]
                /\ window' = [window EXCEPT
                                ![m] = [valid |-> TRUE, slot |-> now, tokens |-> refreshed]]
                /\ call' = [NoCall EXCEPT !.op = "is_valid", !.m = m, !.slot = now,
                               !.cand = token, !.ok = AnyMatch(refreshed, token),
                               !.macs = Len(Generated(m, clock)), !.prev = window[m]]
    /\ UNCHANGED <<clock, secret, interval, tolerance, held>>

\* the kept token: get_offset(manager m)
CallGetOffset(m) ==
    /\ held.has
    /\ IF Panics(m)
       THEN call' = Panicked("get_offset", m)
       ELSE call' = [NoCall EXCEPT !.op = "get_offset", !.m = m,
                        !.slot = CurrentTimestamp(m, clock),
                        !.off = GetOffset(held.tok, m, clock)]
    /\ UNCHANGED <<clock, secret, interval, tolerance, active_tokens, held, window>>

\* The strings a caller presents to manager m: the kept token, the derived token
\* of a slot near the current one, the same in upper case, the token another
\* secret derives, arbitrary text, the empty string.
Candidates(m) ==
    IF Panics(m)
    THEN {"invalid_token", "not-a-real-token", ""}
    ELSE {held.tok.token : x \in {h \in {held} : h.has}}
           \cup {GenerateTokenWithOffset(m, clock, o).token : o \in Offsets}
           \cup {HexUpper(HmacSha256(secret[m], ToString(CurrentTimestamp(m, clock))))}
           \cup {HexEncode(HmacSha256(s, ToString(CurrentTimestamp(m, clock)))) :
                   s \in Secrets}
           \cup {"invalid_token", "not-a-real-token", ""}

Next ==
    \/ Tick
    \/ \E m \in Managers, o \in Offsets, keep \in BOOLEAN :
          CallGenerateTokenWithOffset(m, o, keep)
    \/ \E m \in Managers, keep \in BOOLEAN : CallGenerateToken(m, keep)
    \/ \E m \in Managers : \E token \in Candidates(m) : IsValid(m, token)
    \/ \E m \in Managers : CallGetOffset(m)

Spec == Init /\ [][Next]_vars

\* Two managers with the same secret and interval on one wall clock: the first
\* with any tolerance, the second with the default one.
InitPair ==
    \E i \in ValidIntervals, t \in ValidTolerances :
        Constructed(<<(<<"test_secret", i, t>>), (<<"test_secret", i, None>>)>>)

PairOffsets == (0 - 1)..1

\* The calls on the two managers: generation on either, and validation of an
\* unknown string on either, which gives each manager a history of its own.
NextPair ==
    \/ Tick
    \/ \E m \in Managers, o \in PairOffsets, keep \in BOOLEAN :
          CallGenerateTokenWithOffset(m, o, keep)
    \/ \E m \in Managers, keep \in BOOLEAN : CallGenerateToken(m, keep)
    \/ \E m \in Managers : IsValid(m, "not-a-real-token")

SpecPair == InitPair /\ [][NextPair]_vars

\* One manager constructed from any arguments new accepts.
InitUnchecked ==
    \E i \in AnyIntervals, t \in AnyTolerances :
        Constructed(<<(<<"test_secret", i, t>>)>>)

SpecUnchecked == InitUnchecked /\ [][Next]_vars

\* ------------------------------------------------------------------ claims
Range(seq) == {seq[k] : k \in 1..Len(seq)}

\* hex(HMAC-SHA256(key = secret, message = decimal_string(slot)))
DerivedToken(m, s) ==
    [token |-> HexEncode(HmacSha256(secret[m], ToString(s))), timestamp |-> s]

\* The slots within tolerance of slot now.
WindowSlots(m, now) == (now - tolerance[m])..(now + tolerance[m])

IsValidReturned == call.op = "is_valid" /\ ~call.panicked

GenOps == {"generate_token", "generate_token_with_offset"}

\* C1: right after an is_valid call at slot now, active_tokens holds exactly one
\* token for each slot of [now - t, now + t], that slot's derived token, no two
\* tokens with the same timestamp, none outside the range, and 1 + 2*t in all.
C1_WindowInvariant ==
    IsValidReturned =>
        LET m == call.m
            toks == active_tokens[m]
        IN  /\ Len(toks) = 1 + 2 * tolerance[m]
            /\ \A s \in WindowSlots(m, call.slot) :
                  /\ Cardinality({k \in 1..Len(toks) : toks[k].timestamp = s}) = 1
                  /\ DerivedToken(m, s) \in Range(toks)
            /\ \A k \in 1..Len(toks) : toks[k].timestamp \in WindowSlots(m, call.slot)
            /\ \A j \in 1..Len(toks), k \in 1..Len(toks) :
                  toks[j].timestamp = toks[k].timestamp => j = k

\* An is_valid call that pruned a token and derived another, with tolerance 1.
C1_Witness ==
    /\ IsValidReturned
    /\ tolerance[call.m] = 1
    /\ call.prev.valid
    /\ call.prev.slot = call.slot - 1
    /\ call.macs = 1

\* C2: the token generate_token_with_offset(o) returned, passed to is_valid
\* while the clock is in the slot of its generation, is accepted iff |o| <= t.
C2_WindowAcceptance ==
    (/\ IsValidReturned
     /\ held.has
     /\ held.m = call.m
     /\ held.slot = call.slot
     /\ call.cand = held.tok.token)
        => (call.ok <=> Abs(held.offset) <= tolerance[call.m])

\* The token of offset -t, accepted by a manager that had validated before.
C2_Witness ==
    /\ IsValidReturned
    /\ held.has
    /\ held.m = call.m
    /\ held.slot = call.slot
    /\ call.cand = held.tok.token
    /\ tolerance[call.m] = 1
    /\ held.offset = 0 - 1
    /\ call.prev.valid
    /\ call.ok

\* The slots a candidate of the model can be derived for.
CandidateSlots == (0 - 2 * MaxOffset)..(MaxClock + 2 * MaxOffset)

\* C3: is_valid accepts the derived token of slot s exactly when the current slot
\* of the call lies in [s - t, s + t]; once an is_valid call was made at a slot
\* greater than s + t, the token is rejected.
C3_TokenLifetime ==
    IsValidReturned =>
        \A s \in CandidateSlots :
            call.cand = DerivedToken(call.m, s).token =>
                /\ call.ok <=> (call.slot \in (s - tolerance[call.m])..(s + tolerance[call.m]))
                /\ (call.prev.valid /\ call.prev.slot > s + tolerance[call.m]) => ~call.ok

\* A token generated too far in the future, accepted once the clock reached it.
C3_Witness ==
    /\ IsValidReturned
    /\ held.has
    /\ held.m = call.m
    /\ held.offset > tolerance[call.m]
    /\ call.cand = held.tok.token
    /\ call.prev.valid
    /\ call.ok

\* C4: of two consecutive is_valid calls at slots n and n + 1, the second removes
\* exactly the token of slot n - t, adds exactly the token of slot n + 1 + t,
\* derives no other token, and leaves the other 2*t entries as they were.
C4_SlidingWindow ==
    (IsValidReturned /\ call.prev.valid /\ call.prev.slot + 1 = call.slot) =>
        LET m == call.m
            n == call.prev.slot
            before == Range(call.prev.tokens)
            after == Range(active_tokens[m])
        IN  /\ before \ after = {DerivedToken(m, n - tolerance[m])}
            /\ after \ before = {DerivedToken(m, n + 1 + tolerance[m])}
            /\ Cardinality(before \cap after) = 2 * tolerance[m]
            /\ call.macs = 1
            /\ active_tokens[m] =
                 SelectSeq(call.prev.tokens, LAMBDA tk : tk \in after)
                   \o <<DerivedToken(m, n + 1 + tolerance[m])>>

\* The second of two is_valid calls at slots 1 and 2, with tolerance 1.
C4_Witness ==
    /\ IsValidReturned
    /\ call.prev.valid
    /\ call.prev.slot = 1
    /\ call.slot = 2
    /\ tolerance[call.m] = 1
    /\ Len(active_tokens[call.m]) = 3

\* C5: an is_valid call in the slot of the previous is_valid call leaves
\* active_tokens as that call left it, of size 1 + 2*t, and derives no token,
\* whatever the candidate.
C5_RefreshIdempotence ==
    (IsValidReturned /\ call.prev.valid /\ call.prev.slot = call.slot) =>
        /\ active_tokens[call.m] = call.prev.tokens
        /\ Len(active_tokens[call.m]) = 1 + 2 * tolerance[call.m]
        /\ call.macs = 0

\* A repeated call in one slot, after the window had slid, that accepts its
\* candidate.
C5_Witness ==
    /\ IsValidReturned
    /\ call.prev.valid
    /\ call.prev.slot = call.slot
    /\ call.slot > 0
    /\ tolerance[call.m] = 1
    /\ call.ok

\* C6: is_valid returns, and returns false for every candidate that is not the
\* derived token of a slot in [now - t, now + t].
C6_UnknownTokenRejection ==
    call.op = "is_valid" =>
        /\ ~call.panicked
        /\ (\A s \in WindowSlots(call.m, call.slot) :
               call.cand # DerivedToken(call.m, s).token) => ~call.ok

\* The upper-case copy of the current token, rejected by a fresh manager.
C6_Witness ==
    /\ IsValidReturned
    /\ ~call.prev.valid
    /\ ~held.has
    /\ call.cand = HexUpper(HmacSha256(secret[call.m], ToString(call.slot)))
    /\ ~call.ok

\* C7: no manager holds an interval <= 0 or a negative tolerance, and no call
\* runs on one: new fails with InvalidInterval or InvalidTolerance instead.
C7_FailFastConstruction ==
    /\ \A m \in Managers : interval[m] > 0 /\ tolerance[m] >= 0
    /\ call.op # "none" => ~call.panicked

\* C8: a generated token has the timestamp current_slot + offset, and two
\* tokens generated by managers with equal secret and interval, whatever their
\* histories, are equal when generated in one slot with one offset, and have
\* the same string whenever they have the same timestamp; generate_token is
\* generate_token_with_offset(0).
C8_Determinism ==
    (call.op \in GenOps /\ ~call.panicked) =>
        /\ call.tok.timestamp = call.slot + call.offset
        /\ call.op = "generate_token" => call.offset = 0
        /\ (/\ held.has
            /\ secret[held.m] = secret[call.m]
            /\ interval[held.m] = interval[call.m]) =>
              /\ (held.slot = call.slot /\ held.offset = call.offset)
                    => held.tok = call.tok
              /\ held.tok.timestamp = call.tok.timestamp
                    => held.tok.token = call.tok.token

\* generate_token() on a manager that never validated returns the token kept
\* from generate_token_with_offset(0) on another manager, one that validated.
C8_Witness ==
    /\ call.op = "generate_token"
    /\ held.has
    /\ held.m # call.m
    /\ held.offset = 0
    /\ held.slot = call.slot
    /\ call.slot > 0
    /\ window[held.m].valid
    /\ ~window[call.m].valid
    /\ held.tok = call.tok

\* The window of slot now in the order refresh_tokens builds it from nothing.
FullWindow(m, now) ==
    [i \in 1..(1 + 2 * tolerance[m]) |-> DerivedToken(m, now - tolerance[m] + i - 1)]

\* C9: a generation call leaves active_tokens, secret, interval and tolerance
\* as they were; active_tokens is empty until the first is_valid call of the
\* manager, which makes it the full window.
C9_GenerationReadOnly ==
    [][/\ call'.op \in GenOps
            => UNCHANGED <<active_tokens, secret, interval, tolerance>>
       /\ \A m \in Managers : ~window'[m].valid => active_tokens'[m] = <<>>
       /\ (call'.op = "is_valid" /\ ~call'.panicked /\ ~call'.prev.valid)
            => active_tokens'[call'.m] = FullWindow(call'.m, call'.slot)]_vars

\* The first is_valid call of a manager, made after a generation call in an
\* earlier slot.
C9_Witness ==
    /\ IsValidReturned
    /\ ~call.prev.valid
    /\ held.has
    /\ held.slot < call.slot
    /\ Len(active_tokens[call.m]) = 3

\* C10: get_offset of a token generated with offset o returns o while the clock
\* is in the slot of generation and o - k once the clock is k slots later.
C10_OffsetComputation ==
    (call.op = "get_offset" /\ ~call.panicked /\ held.m = call.m) =>
        call.off = held.offset - (call.slot - held.slot)

\* get_offset two slots after a generation with offset 1, is_valid calls between.
C10_Witness ==
    /\ call.op = "get_offset"
    /\ held.m = call.m
    /\ held.offset = 1
    /\ call.slot = held.slot + 2
    /\ window[call.m].valid
    /\ window[call.m].slot > held.slot
    /\ call.off = 0 - 1

\* s is floor(u / i), for i > 0.
IsFloor(s, u, i) == s * i <= u /\ u < (s + 1) * i

\* C11: for interval > 0 and a clock reading u >= 0 the current slot is
\* floor(u / interval), also as the calls see it; it never decreases as u grows,
\* and from one second to the next it grows by exactly 1 when the new second is
\* a multiple of interval and stays otherwise.
C11_SlotQuantization ==
    [][\A m \in Managers :
          LET before == CurrentTimestamp(m, clock)
              after == CurrentTimestamp(m, clock')
          IN  /\ IsFloor(before, clock, interval[m])
              /\ IsFloor(after, clock', interval[m])
              /\ clock' >= clock => after >= before
              /\ clock' = clock + 1 =>
                    after = (IF clock' % interval[m] = 0 THEN before + 1 ELSE before)
              /\ (call'.op # "none" /\ call'.m = m /\ ~call'.panicked)
                    => IsFloor(call'.slot, clock', interval[m])]_vars

\* A call in slot 1 of interval 2, at second 3: not at a multiple of the interval.
C11_Witness ==
    /\ IsValidReturned
    /\ interval[call.m] = 2
    /\ clock = 3
    /\ call.slot = 1

\* Manager 1 constructed without a tolerance, manager 2 with tolerance 1, on
\* the same secret and interval.
InitDefault ==
    \E i \in ValidIntervals :
        Constructed(<<(<<"test_secret", i, None>>), (<<"test_secret", i, Some(1)>>)>>)

\* Manager 2 has received every is_valid call manager 1 has.
InStep == ~(call.op = "is_valid" /\ call.m = 1)

\* The same calls on both managers: each is_valid call on manager 1 is repeated
\* on manager 2 before anything else happens.
NextDefault ==
    \/ InStep /\ Tick
    \/ /\ InStep
       /\ \E m \in Managers, o \in Offsets, keep \in BOOLEAN :
             CallGenerateTokenWithOffset(m, o, keep)
    \/ InStep /\ \E token \in Candidates(1) : IsValid(1, token)
    \/ ~InStep /\ IsValid(2, call.cand)

SpecDefault == InitDefault /\ [][NextDefault]_vars

\* C12: a manager constructed without a tolerance and one constructed with
\* tolerance 1 hold the same tolerance, return the same tokens, and after the
\* same is_valid calls hold the same active_tokens and have returned the same
\* results: a window of 3, accepting the offsets -1, 0 and 1 and no others.
C12_DefaultTolerance ==
    /\ tolerance[1] = tolerance[2]
    /\ InStep =>
          /\ active_tokens[1] = active_tokens[2]
          /\ window[1] = window[2]
    /\ (call.op \in GenOps /\ ~call.panicked) =>
          \A m \in Managers : GenerateTokenWithOffset(m, clock, call.offset) = call.tok
    /\ (IsValidReturned /\ call.m = 2) =>
          /\ call.ok = AnyMatch(active_tokens[1], call.cand)
          /\ Len(active_tokens[1]) = 3
          /\ \A o \in Offsets :
                call.cand = DerivedToken(1, call.slot + o).token
                    => (call.ok <=> o \in {0 - 1, 0, 1})

\* Both managers, after a slide of the window, reject the token of offset 2
\* that a caller kept from the manager constructed without a tolerance.
C12_Witness ==
    /\ IsValidReturned
    /\ call.m = 2
    /\ call.prev.valid
    /\ call.prev.slot < call.slot
    /\ held.has
    /\ held.m = 1
    /\ held.offset = 2
    /\ held.slot = call.slot
    /\ call.cand = held.tok.token
    /\ ~call.ok
    /\ ~AnyMatch(active_tokens[1], call.cand)

\* ------------------------------------------- the clock moving during a call
\* The non-decreasing sequences of n clock readings from second u on.
RECURSIVE ClockReads(_, _)
ClockReads(u, n) ==
    IF n = 0
    THEN {<<>>}
    ELSE UNION {{<<v>> \o rest : rest \in ClockReads(v, n - 1)} : v \in u..MaxClock}

\* refresh_tokens reading the clock at u, and the generate_token_with_offset call
\* for the i-th missing timestamp reading it again, at reads[i]
RefreshTokensAt(m, u, reads) ==
    LET current_time == CurrentTimestamp(m, u)
        gen == Generated(m, u)
    IN  Retained(m, u)
          \o [i \in 1..Len(gen) |->
                GenerateTokenWithOffset(m, reads[i], gen[i] - current_time)]

\* manager m: is_valid(token), refresh_tokens reading the clock now and its
\* generation calls at reads; the call returns at the last reading.
IsValidRacing(m, token, reads) ==
    /\ ~Panics(m)
    /\ LET refreshed == RefreshTokensAt(m, clock, reads)
           now == CurrentTimestamp(m, clock)
       IN  /\ active_tokens' = [active_tokens EXCEPT ![m] = refreshed]
           /\ window' = [window EXCEPT
                           ![m] = [valid |-> TRUE, slot |-> now, tokens |-> refreshed]]
           /\ call' = [NoCall EXCEPT !.op = "is_valid", !.m = m, !.slot = now,
                          !.cand = token, !.ok = AnyMatch(refreshed, token),
                          !.macs = Len(Generated(m, clock)), !.prev = window[m]]
    /\ clock' = IF reads = <<>> THEN clock ELSE reads[Len(reads)]
    /\ UNCHANGED <<secret, interval, tolerance, held>>

\* The derived tokens of the slots near the current one.
NearTokens(m) == {GenerateTokenWithOffset(m, clock, o).token : o \in Offsets}

NextRace ==
    \/ Tick
    \/ \E m \in Managers : \E token \in NearTokens(m) :
          \E reads \in ClockReads(clock, Len(Generated(m, clock))) :
              IsValidRacing(m, token, reads)

SpecRace == Init /\ [][NextRace]_vars

\* C13: active_tokens never holds two tokens with the same timestamp, and a
\* pruned set of 1 + 2*t members is the full window, also when the clock moves
\* to a later slot between the clock reads of one refresh.
C13_NoDuplicates ==
    \A m \in Managers :
        /\ \A j \in 1..Len(active_tokens[m]), k \in 1..Len(active_tokens[m]) :
              active_tokens[m][j].timestamp = active_tokens[m][k].timestamp => j = k
        /\ LET kept == Retained(m, clock)
           IN  Len(kept) = 1 + 2 * tolerance[m] =>
                  {kept[k].timestamp : k \in 1..Len(kept)}
                      = WindowSlots(m, CurrentTimestamp(m, clock))

\* C14: the token refresh inserts for the i-th missing slot s of its window is
\* the derived token of s, with timestamp s, also when the clock moves to a
\* later slot before the generation call reads it.
C14_InsertedTokenSlot ==
    [][call'.op = "is_valid" /\ ~call'.panicked =>
          LET m == call'.m
              kept == Retained(m, clock)
              gen == Generated(m, clock)
          IN  /\ Len(active_tokens'[m]) = Len(kept) + Len(gen)
              /\ \A i \in 1..Len(gen) :
                    active_tokens'[m][Len(kept) + i] = DerivedToken(m, gen[i])]_vars

\* C15: an is_valid call during which the clock stays in one slot n accepts the
\* derived token of every slot of [n - t, n + t], whatever the earlier calls,
\* also those during which the clock crossed a slot boundary.
C15_NoLastingFalseRejection ==
    (IsValidReturned /\ call.slot = CurrentTimestamp(call.m, clock)) =>
        \A s \in WindowSlots(call.m, call.slot) :
            /\ AnyMatch(active_tokens[call.m], DerivedToken(call.m, s).token)
            /\ call.cand = DerivedToken(call.m, s).token => call.ok

\* ------------------------------------------------------ the clock set back
\* The wall clock is set back to an earlier second.
Rollback ==
    /\ \E u \in 0..(clock - 1) : clock' = u
    /\ call' = NoCall
    /\ UNCHANGED <<secret, interval, tolerance, active_tokens, held, window>>

\* is_valid calls under a clock that moves forward and backward between them.
NextRollback ==
    \/ Tick
    \/ Rollback
    \/ \E m \in Managers : \E token \in NearTokens(m) : IsValid(m, token)

SpecRollback == Init /\ [][NextRollback]_vars

Max(a, b) == IF a >= b THEN a ELSE b
Min(a, b) == IF a <= b THEN a ELSE b

\* C16: after is_valid calls at slots p and n, the second keeps, in their order
\* and unchanged, exactly the max(0, 2*t + 1 - |n - p|) tokens whose slot lies
\* in both windows, removes every token further than t from n, and derives
\* exactly min(2*t + 1, |n - p|) tokens, none of them for a kept slot.
C16_IncrementalRefresh ==
    (IsValidReturned /\ call.prev.valid) =>
        LET m == call.m
            t == tolerance[m]
            d == Abs(call.slot - call.prev.slot)
            old == call.prev.tokens
            new == active_tokens[m]
            kept == SelectSeq(old, LAMBDA tk : tk.timestamp \in WindowSlots(m, call.slot))
        IN  /\ Len(kept) = Max(0, 2 * t + 1 - d)
            /\ {kept[k].timestamp : k \in 1..Len(kept)}
                  = WindowSlots(m, call.slot) \cap WindowSlots(m, call.prev.slot)
            /\ Len(new) = Len(kept) + call.macs
            /\ SubSeq(new, 1, Len(kept)) = kept
            /\ \A k \in 1..Len(old) :
                  Abs(old[k].timestamp - call.slot) > t => old[k] \notin Range(new)
            /\ call.macs = Min(2 * t + 1, d)
            /\ \A i \in (Len(kept) + 1)..Len(new), k \in 1..Len(kept) :
                  new[i].timestamp # kept[k].timestamp

\* An is_valid call two slots before the previous one, with tolerance 1: one
\* token kept, two derived.
C16_Witness ==
    /\ IsValidReturned
    /\ call.prev.valid
    /\ call.prev.slot = call.slot + 2
    /\ tolerance[call.m] = 1
    /\ call.macs = 2
    /\ Len(active_tokens[call.m]) = 3

\* C18: whichever way the slot moved between two is_valid calls, after the
\* later one active_tokens is exactly one token per slot of [now - t, now + t],
\* and a derived token is accepted iff its slot is in that window.
C18_ClockRollback ==
    IsValidReturned =>
        LET m == call.m
        IN  /\ Range(active_tokens[m])
                  = {DerivedToken(m, s) : s \in WindowSlots(m, call.slot)}
            /\ Len(active_tokens[m]) = 1 + 2 * tolerance[m]
            /\ \A s \in CandidateSlots :
                  call.cand = DerivedToken(m, s).token
                      => (call.ok <=> s \in WindowSlots(m, call.slot))

\* After a rollback past the whole previous window, a token that had expired
\* there is accepted again.
C18_Witness ==
    /\ IsValidReturned
    /\ call.prev.valid
    /\ call.prev.slot > call.slot + 2 * tolerance[call.m]
    /\ tolerance[call.m] = 1
    /\ ~AnyMatch(call.prev.tokens, call.cand)
    /\ call.ok

\* C17: an is_valid call computes at most 1 + 2*t MACs: exactly 1 + 2*t on the
\* first is_valid call of a manager and none when the pruned set already has
\* 1 + 2*t members; a generation call computes exactly one.
C17_BoundedWork ==
    /\ IsValidReturned =>
          LET full == 1 + 2 * tolerance[call.m]
              pruned == Len(active_tokens[call.m]) - call.macs
          IN  /\ call.macs <= full
              /\ ~call.prev.valid => call.macs = full
              /\ pruned = full => call.macs = 0
    /\ (call.op \in GenOps /\ ~call.panicked) => call.macs = 1

\* The first is_valid call of a manager with tolerance 1, made in slot 2 after
\* a generation call: three MACs.
C17_Witness ==
    /\ IsValidReturned
    /\ ~call.prev.valid
    /\ tolerance[call.m] = 1
    /\ call.slot = 2
    /\ held.has
    /\ call.macs = 3

====
